---- MODULE Spec2Model ----
(***************************************************************************)
(* Model of the tap crate: the universal tap (src/src/lib.rs), the bool,   *)
(* Result and Option taps (src/src/lib.rs), the Future taps                *)
(* (src/src/future.rs) and the nom IResult taps (src/src/nom.rs).          *)
(*                                                                         *)
(* A caller owns one value `val` and a captured variable `foo`, and builds *)
(* a method chain on the value: every step of the chain is one tap call    *)
(* with one closure.  A call either returns the value (the chain goes on)  *)
(* or unwinds with a panic (the value is dropped and the chain ends).      *)
(***************************************************************************)
EXTENDS Integers, Sequences, FiniteSets

\* ------------------------------------------------------------------ bounds
MaxVal == 2        \* payloads are drawn from 0..MaxVal
MaxPending == 1    \* a future answers NotReady at most this often before completing
MaxChain == 3      \* calls in one method chain

Vals == 0..MaxVal
FooInit == {0, 5}

\* ------------------------------------------------------------------ values
\* Every value is a record [ty, tag, a, b, done]:
\*   int  : tag "-",                      a = the integer
\*   bool : tag "true" | "false"
\*   opt  : tag "Some" (a = payload) | "None"
\*   res  : tag "Ok" | "Err",             a = payload
\*   nom  : tag "Done" (a = remaining input, b = output) | "Error" (a = code)
\*          | "Incomplete" (a = 0 for Needed::Unknown, k > 0 for Needed::Size(k))
\*   fut  : tag = the outcome the computation completes with, "Ready" | "Failed"
\*          (a = payload), or "Never" (futures::future::empty); b = polls that
\*          still answer NotReady; done = it has already handed out its outcome
Val(ty, tag, a, b, done) == [ty |-> ty, tag |-> tag, a |-> a, b |-> b, done |-> done]

Dropped == Val("none", "-", 0, 0, FALSE)

IntVals == {Val("int", "-", v, 0, FALSE) : v \in Vals}
BoolVals == {Val("bool", t, 0, 0, FALSE) : t \in {"true", "false"}}
OptVals == {Val("opt", "Some", v, 0, FALSE) : v \in Vals} \cup {Val("opt", "None", 0, 0, FALSE)}
ResVals == {Val("res", t, v, 0, FALSE) : t \in {"Ok", "Err"}, v \in Vals}
NomVals ==
  {Val("nom", "Done", r, o, FALSE) : r \in Vals, o \in Vals}
    \cup {Val("nom", "Error", e, 0, FALSE) : e \in Vals}
    \cup {Val("nom", "Incomplete", n, 0, FALSE) : n \in Vals}
FutVals ==
  {Val("fut", t, v, n, FALSE) : t \in {"Ready", "Failed"}, v \in Vals, n \in 0..MaxPending}
    \cup {Val("fut", "Never", 0, 0, FALSE)}

AllVals == IntVals \cup BoolVals \cup OptVals \cup ResVals \cup NomVals \cup FutVals

\* ---------------------------------------------------------------- closures
\* The view a closure is handed: one payload (a), a pair (a, b) or nothing.
View(a, b) == [a |-> a, b |-> b]
Unit == View(0, 0)

\* Closures over a payload view.  What a closure does is the caller's code:
\*   obs   : foo += *v            store : foo = *v
\*   inc   : *v += 1              incb  : the second component += 1
\*   nz    : if *v is zero (Needed::Unknown) panic!() else foo = *v
\*   bump  : foo += 5             panic : panic!()
CallF(f, view, foo) ==
  CASE f = "obs"   -> [panicked |-> FALSE, view |-> view, foo |-> foo + view.a]
    [] f = "store" -> [panicked |-> FALSE, view |-> view, foo |-> view.a]
    [] f = "inc"   -> [panicked |-> FALSE, view |-> View(view.a + 1, view.b), foo |-> foo]
    [] f = "incb"  -> [panicked |-> FALSE, view |-> View(view.a, view.b + 1), foo |-> foo]
    [] f = "nz"    -> IF view.a = 0
                        THEN [panicked |-> TRUE, view |-> view, foo |-> foo]
                        ELSE [panicked |-> FALSE, view |-> view, foo |-> view.a]
    [] f = "bump"  -> [panicked |-> FALSE, view |-> view, foo |-> foo + 5]
    [] OTHER       -> [panicked |-> TRUE, view |-> view, foo |-> foo]

MutClosures == {"obs", "store", "inc", "nz"}      \* FnOnce(&mut T)
PairClosures == {"obs", "store", "incb", "nz"}    \* FnOnce((&mut I, &mut O))
RefClosures == {"obs", "store", "nz"}             \* FnOnce(&T)
UnitClosures == {"bump", "panic"}                 \* FnOnce()
WholeClosures == {"obs", "inc", "swap", "panic"}  \* FnOnce(&mut Self)

HasPayload(c) ==
  \/ c.ty = "int"
  \/ c.ty = "opt" /\ c.tag = "Some"
  \/ c.ty = "res"
  \/ c.ty = "nom"
  \/ c.ty = "fut" /\ c.tag # "Never"

\* A closure that assigns through its &mut Self: `*o = None`, `*r = Err(x)`, ...
Swap(c) ==
  CASE c.ty = "int"  -> [c EXCEPT !.a = 0]
    [] c.ty = "bool" -> [c EXCEPT !.tag = IF c.tag = "true" THEN "false" ELSE "true"]
    [] c.ty = "opt"  -> IF c.tag = "Some" THEN Val("opt", "None", 0, 0, FALSE)
                                          ELSE Val("opt", "Some", 0, 0, FALSE)
    [] c.ty = "res"  -> [c EXCEPT !.tag = IF c.tag = "Ok" THEN "Err" ELSE "Ok"]
    [] c.ty = "nom"  -> IF c.tag = "Done" THEN Val("nom", "Incomplete", 0, 0, FALSE)
                        ELSE IF c.tag = "Error" THEN Val("nom", "Done", 0, c.a, FALSE)
                        ELSE Val("nom", "Error", c.a, 0, FALSE)
    [] c.ty = "fut"  -> IF c.tag = "Ready" THEN [c EXCEPT !.tag = "Failed"]
                        ELSE IF c.tag = "Failed" THEN [c EXCEPT !.tag = "Ready"]
                        ELSE c
    [] OTHER         -> c

\* Closures over the whole value (the universal tap hands out &mut Self).
CallWhole(f, c, foo) ==
  CASE f = "obs"   -> [panicked |-> FALSE, self |-> c, foo |-> foo + c.a]
    [] f = "inc"   -> [panicked |-> FALSE,
                       self |-> IF HasPayload(c) THEN [c EXCEPT !.a = c.a + 1] ELSE c,
                       foo |-> foo]
    [] f = "swap"  -> [panicked |-> FALSE, self |-> Swap(c), foo |-> foo]
    [] OTHER       -> [panicked |-> TRUE, self |-> c, foo |-> foo]

\* ------------------------------------------------------- outcome of a call
\* log is the order of the events of the call; args the views closures saw.
Return(ret, foo, log, args) ==
  [ret |-> ret, returned |-> TRUE, foo |-> foo, log |-> log \o <<"return">>, args |-> args]

Unwind(foo, log, args) ==
  [ret |-> Dropped, returned |-> FALSE, foo |-> foo, log |-> log \o <<"unwind">>, args |-> args]

\* `let _ = f(view); self`: the closure runs, its result is discarded, then
\* self is returned; a panic in the closure unwinds through the tap.
Finish(pre, view, r, selfAfter) ==
  IF r.panicked
    THEN Unwind(r.foo, pre \o <<"f_enter">>, <<view>>)
    ELSE Return(selfAfter, r.foo, pre \o <<"f_enter", "f_exit">>, <<view>>)

\* ------------------------------------------------------------ universal tap
\* A tap that forgets to run the closure.
tap_skip(self, f, foo) == Return(self, foo, <<>>, <<>>)

tap(self, f, foo) ==
  LET r == CallWhole(f, self, foo) IN
    IF r.panicked
      THEN Unwind(r.foo, <<"f_enter">>, <<self>>)
      ELSE Return(r.self, r.foo, <<"f_enter", "f_exit">>, <<self>>)

\* --------------------------------------------------------------------- bool
tap_true(self, f, foo) ==
  IF self.tag = "true"
    THEN Finish(<<>>, Unit, CallF(f, Unit, foo), self)
    ELSE Return(self, foo, <<>>, <<>>)

\* The condition of tap_true copied into tap_false.
tap_false_inverted(self, f, foo) ==
  IF self.tag = "true"
    THEN Finish(<<>>, Unit, CallF(f, Unit, foo), self)
    ELSE Return(self, foo, <<>>, <<>>)

tap_false(self, f, foo) ==
  IF ~(self.tag = "true")
    THEN Finish(<<>>, Unit, CallF(f, Unit, foo), self)
    ELSE Return(self, foo, <<>>, <<>>)

\* ------------------------------------------------------------------- Result
\* A tap_ok that hands the closure whatever payload the Result holds.
tap_ok_any(self, f, foo) ==
  LET r == CallF(f, View(self.a, 0), foo) IN
    Finish(<<>>, View(self.a, 0), r, [self EXCEPT !.a = r.view.a])

tap_ok(self, f, foo) ==
  IF self.tag = "Ok"
    THEN LET r == CallF(f, View(self.a, 0), foo) IN
           Finish(<<>>, View(self.a, 0), r, [self EXCEPT !.a = r.view.a])
    ELSE Return(self, foo, <<>>, <<>>)

tap_err(self, f, foo) ==
  IF self.tag = "Err"
    THEN LET r == CallF(f, View(self.a, 0), foo) IN
           Finish(<<>>, View(self.a, 0), r, [self EXCEPT !.a = r.view.a])
    ELSE Return(self, foo, <<>>, <<>>)

\* ------------------------------------------------------------------- Option
\* A tap_some that matches on self.take(): the Option is left empty.
tap_some_take(self, f, foo) ==
  IF self.tag = "Some"
    THEN LET r == CallF(f, View(self.a, 0), foo) IN
           Finish(<<>>, View(self.a, 0), r, Val("opt", "None", 0, 0, FALSE))
    ELSE Return(self, foo, <<>>, <<>>)

tap_some(self, f, foo) ==
  IF self.tag = "Some"
    THEN LET r == CallF(f, View(self.a, 0), foo) IN
           Finish(<<>>, View(self.a, 0), r, [self EXCEPT !.a = r.view.a])
    ELSE Return(self, foo, <<>>, <<>>)

\* A tap_none that tests is_some().
tap_none_some(self, f, foo) ==
  IF self.tag = "Some"
    THEN Finish(<<>>, Unit, CallF(f, Unit, foo), self)
    ELSE Return(self, foo, <<>>, <<>>)

tap_none(self, f, foo) ==
  IF self.tag = "None"
    THEN Finish(<<>>, Unit, CallF(f, Unit, foo), self)
    ELSE Return(self, foo, <<>>, <<>>)

\* ------------------------------------------------------------------- Future
\* Future::poll on the computations of the tests: future::result hands its
\* outcome out once and panics when polled again ("cannot poll Result
\* twice"), future::empty is never ready; a computation with b > 0 is not
\* ready yet and moves one step towards completion with every poll.
Poll(fut) ==
  IF fut.done THEN [out |-> "Panic", v |-> 0, fut |-> fut]
  ELSE IF fut.tag = "Never" THEN [out |-> "NotReady", v |-> 0, fut |-> fut]
  ELSE IF fut.b > 0 THEN [out |-> "NotReady", v |-> 0, fut |-> [fut EXCEPT !.b = fut.b - 1]]
  ELSE [out |-> IF fut.tag = "Ready" THEN "Ready" ELSE "Err",
        v |-> fut.a,
        fut |-> [fut EXCEPT !.done = TRUE]]

tap_ready(self, f, foo) ==
  LET p == Poll(self) IN
    IF p.out = "Panic" THEN Unwind(foo, <<"poll">>, <<>>)
    ELSE IF p.out = "Ready"
      THEN Finish(<<"poll">>, View(p.v, 0), CallF(f, View(p.v, 0), foo), p.fut)
      ELSE Return(p.fut, foo, <<"poll">>, <<>>)

\* A tap_not_ready whose pattern is Ok(_): it also fires on Async::Ready.
tap_not_ready_any(self, f, foo) ==
  LET p == Poll(self) IN
    IF p.out = "Panic" THEN Unwind(foo, <<"poll">>, <<>>)
    ELSE IF p.out \in {"NotReady", "Ready"}
      THEN Finish(<<"poll">>, Unit, CallF(f, Unit, foo), p.fut)
      ELSE Return(p.fut, foo, <<"poll">>, <<>>)

tap_not_ready(self, f, foo) ==
  LET p == Poll(self) IN
    IF p.out = "Panic" THEN Unwind(foo, <<"poll">>, <<>>)
    ELSE IF p.out = "NotReady"
      THEN Finish(<<"poll">>, Unit, CallF(f, Unit, foo), p.fut)
      ELSE Return(p.fut, foo, <<"poll">>, <<>>)

future_tap_err(self, f, foo) ==
  LET p == Poll(self) IN
    IF p.out = "Panic" THEN Unwind(foo, <<"poll">>, <<>>)
    ELSE IF p.out = "Err"
      THEN Finish(<<"poll">>, View(p.v, 0), CallF(f, View(p.v, 0), foo), p.fut)
      ELSE Return(p.fut, foo, <<"poll">>, <<>>)

\* The caller drives the computation itself: `future.poll()`.
poll(self, foo) ==
  LET p == Poll(self) IN
    IF p.out = "Panic" THEN Unwind(foo, <<"poll">>, <<>>)
    ELSE Return(p.fut, foo, <<"poll">>, <<>>)

\* ------------------------------------------------------------- nom IResult
\* A tap_done that builds the tuple in the wrong order: (val, rem).
tap_done_swapped(self, f, foo) ==
  IF self.tag = "Done"
    THEN LET r == CallF(f, View(self.b, self.a), foo) IN
           Finish(<<>>, View(self.b, self.a), r,
                  [self EXCEPT !.a = r.view.b, !.b = r.view.a])
    ELSE Return(self, foo, <<>>, <<>>)

tap_done(self, f, foo) ==
  IF self.tag = "Done"
    THEN LET r == CallF(f, View(self.a, self.b), foo) IN
           Finish(<<>>, View(self.a, self.b), r,
                  [self EXCEPT !.a = r.view.a, !.b = r.view.b])
    ELSE Return(self, foo, <<>>, <<>>)

tap_error(self, f, foo) ==
  IF self.tag = "Error"
    THEN LET r == CallF(f, View(self.a, 0), foo) IN
           Finish(<<>>, View(self.a, 0), r, [self EXCEPT !.a = r.view.a])
    ELSE Return(self, foo, <<>>, <<>>)

\* A tap_incomplete that runs the closure under catch_unwind.
tap_incomplete_caught(self, f, foo) ==
  IF self.tag = "Incomplete"
    THEN LET r == CallF(f, View(self.a, 0), foo) IN
           IF r.panicked
             THEN Return(self, r.foo, <<"f_enter">>, <<View(self.a, 0)>>)
             ELSE Return([self EXCEPT !.a = r.view.a], r.foo,
                         <<"f_enter", "f_exit">>, <<View(self.a, 0)>>)
    ELSE Return(self, foo, <<>>, <<>>)

tap_incomplete(self, f, foo) ==
  IF self.tag = "Incomplete"
    THEN LET r == CallF(f, View(self.a, 0), foo) IN
           Finish(<<>>, View(self.a, 0), r, [self EXCEPT !.a = r.view.a])
    ELSE Return(self, foo, <<>>, <<>>)

\* -------------------------------------------------------------------- state
VARIABLES
  val,      \* the value the caller's chain currently owns
  foo,      \* the caller's variable that the closures capture
  status,   \* "running", or "panicked" once a call unwound
  hist      \* the calls of the chain so far, in order

vars == <<val, foo, status, hist>>

Init ==
  /\ val \in AllVals
  /\ foo \in FooInit
  /\ status = "running"
  /\ hist = <<>>

CanCall(ty) ==
  /\ status = "running"
  /\ Len(hist) < MaxChain
  /\ val.ty = ty

\* One call of the chain: the caller's binding takes what the call returned.
Step(op, f, r) ==
  /\ val' = r.ret
  /\ foo' = r.foo
  /\ status' = IF r.returned THEN "running" ELSE "panicked"
  /\ hist' = Append(hist, [op |-> op, f |-> f, self |-> val, foo0 |-> foo,
                           ret |-> r.ret, returned |-> r.returned,
                           foo |-> r.foo, log |-> r.log, args |-> r.args])

Tap ==
  /\ status = "running"
  /\ Len(hist) < MaxChain
  /\ \E f \in WholeClosures : Step("tap", f, tap(val, f, foo))

TapTrue == CanCall("bool") /\ \E f \in UnitClosures : Step("tap_true", f, tap_true(val, f, foo))

TapFalse == CanCall("bool") /\ \E f \in UnitClosures : Step("tap_false", f, tap_false(val, f, foo))

TapOk == CanCall("res") /\ \E f \in MutClosures : Step("tap_ok", f, tap_ok(val, f, foo))

TapErr == CanCall("res") /\ \E f \in MutClosures : Step("tap_err", f, tap_err(val, f, foo))

TapSome == CanCall("opt") /\ \E f \in MutClosures : Step("tap_some", f, tap_some(val, f, foo))

TapNone == CanCall("opt") /\ \E f \in UnitClosures : Step("tap_none", f, tap_none(val, f, foo))

TapReady == CanCall("fut") /\ \E f \in RefClosures : Step("tap_ready", f, tap_ready(val, f, foo))

TapNotReady ==
  CanCall("fut") /\ \E f \in UnitClosures : Step("tap_not_ready", f, tap_not_ready(val, f, foo))

FutureTapErr ==
  CanCall("fut") /\ \E f \in RefClosures : Step("future_tap_err", f, future_tap_err(val, f, foo))

CallerPoll == CanCall("fut") /\ Step("poll", "-", poll(val, foo))

TapDone == CanCall("nom") /\ \E f \in PairClosures : Step("tap_done", f, tap_done(val, f, foo))

TapError == CanCall("nom") /\ \E f \in MutClosures : Step("tap_error", f, tap_error(val, f, foo))

TapIncomplete ==
  CanCall("nom") /\ \E f \in MutClosures : Step("tap_incomplete", f, tap_incomplete(val, f, foo))

Next ==
  \/ Tap
  \/ TapTrue
  \/ TapFalse
  \/ TapOk
  \/ TapErr
  \/ TapSome
  \/ TapNone
  \/ TapReady
  \/ TapNotReady
  \/ FutureTapErr
  \/ CallerPoll
  \/ TapDone
  \/ TapError
  \/ TapIncomplete

Spec == Init /\ [][Next]_vars

\* ------------------------------------------------------ reading the history
Count(s, e) == Cardinality({k \in DOMAIN s : s[k] = e})

\* How often the call ran its closure, and how often it polled.
Invoked(h) == Count(h.log, "f_enter")
Polled(h) == Count(h.log, "poll")

Before(s, e1, e2) ==
  \E k1, k2 \in DOMAIN s : s[k1] = e1 /\ s[k2] = e2 /\ k1 < k2

AsyncTaps == {"tap_ready", "tap_not_ready", "future_tap_err"}
ConditionalTaps ==
  {"tap_true", "tap_false", "tap_ok", "tap_err", "tap_some", "tap_none",
   "tap_done", "tap_error", "tap_incomplete"} \cup AsyncTaps

\* The condition the documentation gives each operation, on the value passed in.
Cond(h) ==
  CASE h.op = "tap"            -> TRUE
    [] h.op = "tap_true"       -> h.self.tag = "true"
    [] h.op = "tap_false"      -> h.self.tag = "false"
    [] h.op = "tap_ok"         -> h.self.tag = "Ok"
    [] h.op = "tap_err"        -> h.self.tag = "Err"
    [] h.op = "tap_some"       -> h.self.tag = "Some"
    [] h.op = "tap_none"       -> h.self.tag = "None"
    [] h.op = "tap_done"       -> h.self.tag = "Done"
    [] h.op = "tap_error"      -> h.self.tag = "Error"
    [] h.op = "tap_incomplete" -> h.self.tag = "Incomplete"
    [] h.op = "tap_ready"      -> Poll(h.self).out = "Ready"
    [] h.op = "tap_not_ready"  -> Poll(h.self).out = "NotReady"
    [] h.op = "future_tap_err" -> Poll(h.self).out = "Err"
    [] OTHER                   -> FALSE

\* The view the documentation says the closure of the call is handed.
Payload(h) ==
  CASE h.op \in {"tap_true", "tap_false", "tap_none", "tap_not_ready"} -> Unit
    [] h.op = "tap_done" -> View(h.self.a, h.self.b)
    [] h.op \in {"tap_ready", "future_tap_err"} -> View(Poll(h.self).v, 0)
    [] OTHER -> View(h.self.a, 0)

\* What the closure of the call does when it is run on that view.
Effect(h) == CallF(h.f, Payload(h), h.foo0)

ClosurePanics(h) ==
  IF h.op = "tap" THEN CallWhole(h.f, h.self, h.foo0).panicked ELSE Effect(h).panicked

\* A conditional tap on a plain container: the closure runs once on the
\* documented view iff the condition holds, and the container comes back in
\* its variant with the payload as the closure left it.
TapContract(h) ==
  /\ Invoked(h) = (IF Cond(h) THEN 1 ELSE 0)
  /\ Cond(h) => h.args = <<Payload(h)>>
  /\ ~Cond(h) => h.returned /\ h.ret = h.self /\ h.foo = h.foo0
  /\ (Cond(h) /\ h.returned) =>
       /\ h.ret.ty = h.self.ty
       /\ h.ret.tag = h.self.tag
       /\ h.ret.a = Effect(h).view.a
       /\ h.ret.b = Effect(h).view.b
       /\ h.foo = Effect(h).foo

\* Calls i, i+1, ... of the chain are exactly the operations of ops, once each.
ChainOf(i, ops) ==
  /\ i + Cardinality(ops) - 1 <= Len(hist)
  /\ {hist[k].op : k \in i..(i + Cardinality(ops) - 1)} = ops

RECURSIVE SumInvoked(_, _)
SumInvoked(i, n) == IF n = 0 THEN 0 ELSE Invoked(hist[i]) + SumInvoked(i + 1, n - 1)

RECURSIVE SumPolled(_, _)
SumPolled(i, n) == IF n = 0 THEN 0 ELSE Polled(hist[i]) + SumPolled(i + 1, n - 1)

\* ------------------------------------------------------------------- claims

\* C1: tap(v, f) runs f exactly once, unconditionally, on a mutable view of
\* v, and returns v as f left it; with a closure that only reads (foo += *v)
\* the value comes back equal to v and foo has grown by v.
C1_TapRunsOnce ==
  \A i \in DOMAIN hist :
    LET h == hist[i] IN
      h.op = "tap" =>
        /\ Invoked(h) = 1
        /\ h.args = <<h.self>>
        /\ h.returned =>
             /\ h.ret = CallWhole(h.f, h.self, h.foo0).self
             /\ h.foo = CallWhole(h.f, h.self, h.foo0).foo
             /\ Before(h.log, "f_exit", "return")
        /\ (h.f = "obs" /\ h.self.ty = "int") =>
             h.returned /\ h.ret = h.self /\ h.foo = h.foo0 + h.self.a

C1_Witness ==
  /\ Len(hist) = 2
  /\ hist[1].op = "tap" /\ hist[1].f = "obs" /\ hist[1].self.ty = "int"
  /\ hist[1].self.a = 2 /\ hist[1].foo0 = 5 /\ hist[1].foo = 7 /\ hist[1].ret.a = 2
  /\ hist[2].op = "tap" /\ hist[2].f = "inc" /\ val.a = 3

\* C2: tap_ok runs its closure (once, on the Ok payload) iff the Result is
\* Ok, tap_err (once, on the Err payload) iff it is Err; in the chain
\* r.tap_ok(f).tap_err(g) exactly one closure runs; the Result comes back in
\* its variant.
C2_ResultTaps ==
  /\ \A i \in DOMAIN hist : hist[i].op \in {"tap_ok", "tap_err"} => TapContract(hist[i])
  /\ \A i \in DOMAIN hist : ChainOf(i, {"tap_ok", "tap_err"}) => SumInvoked(i, 2) = 1

C2_Witness ==
  /\ Len(hist) = 2
  /\ hist[1].op = "tap_ok" /\ hist[1].self.tag = "Err" /\ hist[1].self.a = 2
  /\ Invoked(hist[1]) = 0
  /\ hist[2].op = "tap_err" /\ hist[2].f = "store" /\ Invoked(hist[2]) = 1
  /\ foo = 2 /\ val.tag = "Err" /\ val.a = 2

\* C3: tap_some runs its closure (once, on the contained value) iff the
\* Option is Some, tap_none (once, no payload) iff it is None; the Option
\* comes back in its variant, for tap_some with the payload as f left it.
C3_OptionTaps ==
  \A i \in DOMAIN hist : hist[i].op \in {"tap_some", "tap_none"} => TapContract(hist[i])

C3_Witness ==
  /\ Len(hist) = 2
  /\ hist[1].op = "tap_some" /\ hist[1].f = "inc" /\ hist[1].self.tag = "Some"
  /\ hist[1].self.a = 1 /\ hist[1].ret.a = 2
  /\ hist[2].op = "tap_none" /\ Invoked(hist[2]) = 0
  /\ val.tag = "Some" /\ val.a = 2

\* C4 as stated: after any chain of tap operations, the universal tap
\* included, an Option, Result or IResult is in the variant it started in.
C4_VariantKeptByAnyChain ==
  (Len(hist) > 0 /\ status = "running" /\ hist[1].self.ty \in {"opt", "res", "nom"})
    => val.tag = hist[1].self.tag

\* C4 amended: after any chain of the conditional taps (tap_some, tap_none,
\* tap_ok, tap_err, tap_done, tap_error, tap_incomplete) an Option, Result or
\* IResult is in the variant it started in, and each of these calls changes
\* at most the payload of the variant it matched.
C4_VariantKeptByConditionalTaps ==
  /\ (/\ Len(hist) > 0
      /\ status = "running"
      /\ hist[1].self.ty \in {"opt", "res", "nom"}
      /\ \A i \in DOMAIN hist : hist[i].op # "tap")
       => val.ty = hist[1].self.ty /\ val.tag = hist[1].self.tag
  /\ \A i \in DOMAIN hist :
       LET h == hist[i] IN
         (h.op \in ConditionalTaps \ AsyncTaps /\ h.self.ty \in {"opt", "res", "nom"} /\ h.returned)
           => /\ h.ret.ty = h.self.ty
              /\ h.ret.tag = h.self.tag
              /\ ~Cond(h) => h.ret = h.self

C4_Witness ==
  /\ Len(hist) = 3
  /\ status = "running"
  /\ hist[1].self = Val("nom", "Done", 1, 2, FALSE)
  /\ hist[1].op = "tap_done" /\ hist[1].f = "incb"
  /\ hist[2].op = "tap_incomplete"
  /\ hist[3].op = "tap_error"
  /\ val = Val("nom", "Done", 1, 3, FALSE)

\* C5: every async tap polls the computation exactly once and runs its
\* closure at most once, exactly when that poll's outcome is the one the
\* operation is about (tap_ready sees the ready payload, tap_err the failure
\* payload); so a chain of n async taps has polled the computation n times.
C5_AsyncTapsPollOnce ==
  /\ \A i \in DOMAIN hist :
       LET h == hist[i] IN
         h.op \in AsyncTaps =>
           /\ Polled(h) = 1
           /\ Invoked(h) = (IF Cond(h) THEN 1 ELSE 0)
           /\ Cond(h) => h.args = <<Payload(h)>> /\ Before(h.log, "poll", "f_enter")
           /\ (Cond(h) /\ h.returned) => h.foo = Effect(h).foo
           /\ ~Cond(h) => h.foo = h.foo0
  /\ (\A i \in DOMAIN hist : hist[i].op \in AsyncTaps)
       => SumPolled(1, Len(hist)) = Len(hist)

C5_Witness ==
  /\ Len(hist) = 3
  /\ hist[1].op = "tap_not_ready" /\ Invoked(hist[1]) = 1
  /\ hist[1].self.tag = "Ready" /\ hist[1].self.a = 2 /\ hist[1].self.b = 1
  /\ hist[2].op = "tap_ready" /\ hist[2].f = "obs" /\ Invoked(hist[2]) = 1
  /\ hist[2].args = <<View(2, 0)>>
  /\ foo = hist[2].foo0 + 2
  /\ hist[3].op = "future_tap_err" /\ Invoked(hist[3]) = 0 /\ Polled(hist[3]) = 1
  /\ SumPolled(1, 3) = 3

\* C6 as stated: the computation an async tap returns is unchanged from the
\* one passed in, and its next poll yields what the next poll of the
\* untapped computation would have yielded.
C6_ReturnedComputationUnchanged ==
  \A i \in DOMAIN hist :
    LET h == hist[i] IN
      (h.op \in AsyncTaps /\ h.returned) =>
        /\ h.ret = h.self
        /\ Poll(h.ret).out = Poll(h.self).out
        /\ Poll(h.ret).v = Poll(h.self).v

\* C7: tap_done runs its closure iff the IResult is Done, on the pair
\* (remaining input, output); tap_error iff it is Error, on the error;
\* tap_incomplete iff it is Incomplete, on the Needed; over the three
\* operations chained on one value exactly one closure runs, and each returns
\* the IResult in its variant with the matched payload as the closure left it.
C7_NomTaps ==
  /\ \A i \in DOMAIN hist :
       hist[i].op \in {"tap_done", "tap_error", "tap_incomplete"} => TapContract(hist[i])
  /\ \A i \in DOMAIN hist :
       ChainOf(i, {"tap_done", "tap_error", "tap_incomplete"}) => SumInvoked(i, 3) = 1

C7_Witness ==
  /\ Len(hist) = 3
  /\ hist[1].op = "tap_error" /\ hist[2].op = "tap_done" /\ hist[3].op = "tap_incomplete"
  /\ hist[1].self = Val("nom", "Done", 2, 1, FALSE)
  /\ hist[2].f = "store" /\ hist[2].args = <<View(2, 1)>> /\ hist[2].foo = 2
  /\ Invoked(hist[1]) = 0 /\ Invoked(hist[2]) = 1 /\ Invoked(hist[3]) = 0
  /\ val = Val("nom", "Done", 2, 1, FALSE)

\* C8 as stated: a conditional tap of any family whose condition does not
\* hold is a no-op: no closure runs, the value returned is identical to the
\* one passed in (an async computation's state included), nothing else changes.
C8_NoOpWhenConditionFails ==
  \A i \in DOMAIN hist :
    LET h == hist[i] IN
      (h.op \in ConditionalTaps /\ ~Cond(h)) =>
        /\ Invoked(h) = 0
        /\ h.returned
        /\ h.ret = h.self
        /\ h.foo = h.foo0

\* C9: a panic in the closure is not caught: when the condition of a call
\* holds and its closure panics, the call unwinds and returns no value; and a
\* closure that was run has finished before the call returns.
C9_ClosurePanicPropagates ==
  /\ \A i \in DOMAIN hist :
       LET h == hist[i] IN
         /\ (Cond(h) /\ ClosurePanics(h)) =>
              /\ ~h.returned
              /\ h.ret = Dropped
              /\ Count(h.log, "return") = 0
              /\ Before(h.log, "f_enter", "unwind")
              /\ i = Len(hist)
              /\ status = "panicked"
         /\ (Invoked(h) = 1 /\ h.returned) =>
              /\ Before(h.log, "f_enter", "f_exit")
              /\ Before(h.log, "f_exit", "return")
              /\ h.log[Len(h.log)] = "return"
  /\ status = "panicked" => val = Dropped

C9_Witness ==
  /\ Len(hist) = 2
  /\ hist[1].op = "tap_done" /\ Invoked(hist[1]) = 0 /\ hist[1].returned
  /\ hist[2].op = "tap_incomplete" /\ hist[2].f = "nz"
  /\ hist[2].self = Val("nom", "Incomplete", 0, 0, FALSE)
  /\ ~hist[2].returned
  /\ status = "panicked"

\* C10: tap_true runs its closure iff the bool is true, tap_false iff it is
\* false, each at most once, so in b.tap_true(f).tap_false(g) exactly one
\* closure runs; both return b.
C10_BoolTaps ==
  /\ \A i \in DOMAIN hist :
       LET h == hist[i] IN
         h.op \in {"tap_true", "tap_false"} =>
           /\ Invoked(h) = (IF Cond(h) THEN 1 ELSE 0)
           /\ h.returned => h.ret = h.self
           /\ ~Cond(h) => h.returned /\ h.foo = h.foo0
           /\ (Cond(h) /\ h.returned) => h.foo = Effect(h).foo
  /\ \A i \in DOMAIN hist : ChainOf(i, {"tap_true", "tap_false"}) => SumInvoked(i, 2) = 1

C10_Witness ==
  /\ Len(hist) = 2
  /\ hist[1].op = "tap_true" /\ hist[1].self.tag = "false" /\ Invoked(hist[1]) = 0
  /\ hist[2].op = "tap_false" /\ hist[2].f = "bump" /\ Invoked(hist[2]) = 1
  /\ foo = hist[1].foo0 + 5
  /\ val.tag = "false"

====
